---------------------------- MODULE Spec2Model ----------------------------
(***************************************************************************)
(* A model of python_ansible_wrapper: the Block / Play task-tree builder   *)
(* and Play.run_play, the hand-off of the generated playbook to            *)
(* ansible-playbook.                                                       *)
(*                                                                         *)
(* Representation.                                                         *)
(*  - A Python str is a sequence of tokens (substrings); "" is <<>>,       *)
(*    concatenation is \o, and the token "/" is the path separator.        *)
(*  - A pathlib.Path is a record [abs, parts], parts a sequence of str.    *)
(*  - A Python dict is a TLA+ record (a function on strings).              *)
(*  - An optional argument is <<>> (None) or <<v>>.                        *)
(*  - Block objects live in the arena `blocks`; a Block is named by its    *)
(*    index, which stands for the Python object reference.                 *)
(***************************************************************************)
EXTENDS Naturals, Sequences, FiniteSets, TLC

VARIABLES
    blocks,       \* arena of Block objects: [name, root, tasks, isPlay]
    appended,     \* history: per block, the successful builder calls in call order
    lastCall,     \* history: the most recent builder / constructor call and its outcome
    ncalls,       \* number of builder and constructor calls made so far
    pc,           \* position of the (single) run_play call
    run,          \* locals of the run_play call: saveas, hosts, verbosity, tmpdir
    raised,       \* the exception run_play is propagating: [exc, line]
    tmpExists,    \* the TemporaryDirectory of the run exists on disk
    tmpMade,      \* number of temporary directories created
    docfile,      \* content of the file at the save path: <<>> absent, <<d>> content d
    logs,         \* messages given to log.info, in order
    invocations   \* calls of subprocess.run: [cmd, cwd, exit]

vars == <<blocks, appended, lastCall, ncalls, pc, run, raised,
          tmpExists, tmpMade, docfile, logs, invocations>>

buildVars == <<blocks, appended, lastCall, ncalls>>
runVars == <<pc, run, raised, tmpExists, tmpMade, docfile, logs, invocations>>

\* Bounds of the model.
MaxOps == 3
MaxRunOps == 2

---------------------------------------------------------------------------
\* Optional values.
None == <<>>
Some(v) == <<v>>
IsNone(o) == Len(o) = 0
Val(o) == o[1]

---------------------------------------------------------------------------
\* Python str helpers.

RECURSIVE Join(_, _)
\* sep.join(items), items a sequence of str
Join(items, sep) ==
    IF Len(items) = 0 THEN <<>>
    ELSE IF Len(items) = 1 THEN items[1]
    ELSE items[1] \o sep \o Join(Tail(items), sep)

DigitChars == <<"0", "1", "2", "3", "4", "5", "6", "7", "8", "9">>

RECURSIVE StrOfInt(_)
\* str(n) for a non-negative int
StrOfInt(n) ==
    IF n < 10 THEN <<DigitChars[n + 1]>>
    ELSE StrOfInt(n \div 10) \o <<DigitChars[(n % 10) + 1]>>

\* repr(s) of a str without quotes in it
Repr(s) == <<"'">> \o s \o <<"'">>

\* '/' in s
HasSlash(s) == \E i \in 1..Len(s) : s[i] = "/"

\* s.endswith('.yml')
EndsWithYml(s) == Len(s) > 0 /\ s[Len(s)] = ".yml"

RECURSIVE Split(_)
\* s.split('/'): the segments between separators (empty segments included)
Split(s) ==
    IF ~HasSlash(s) THEN <<s>>
    ELSE LET i == CHOOSE k \in 1..Len(s) : s[k] = "/" /\ \A j \in 1..(k - 1) : s[j] # "/"
         IN  <<SubSeq(s, 1, i - 1)>> \o Split(SubSeq(s, i + 1, Len(s)))

\* os.path.basename(s): what follows the last separator
basename(s) == LET segs == Split(s) IN segs[Len(segs)]

---------------------------------------------------------------------------
\* pathlib.

IsRealSegment(seg) == Len(seg) > 0 /\ seg # <<".">>

\* Path(s): empty and "." segments are dropped
PathOf(s) ==
    [abs |-> Len(s) > 0 /\ s[1] = "/", parts |-> SelectSeq(Split(s), IsRealSegment)]

\* str(p)
StrOfPath(p) ==
    IF p.abs THEN <<"/">> \o Join(p.parts, <<"/">>)
    ELSE IF Len(p.parts) = 0 THEN <<".">>
    ELSE Join(p.parts, <<"/">>)

\* p / q for Paths: an absolute right operand replaces the left one
JoinPath(p, q) ==
    IF q.abs THEN q ELSE [abs |-> p.abs, parts |-> p.parts \o q.parts]

\* p / s for a str s
JoinStr(p, s) == JoinPath(p, PathOf(s))

IsUnder(p, other) ==
    /\ p.abs = other.abs
    /\ Len(other.parts) <= Len(p.parts)
    /\ SubSeq(p.parts, 1, Len(other.parts)) = other.parts

\* p.relative_to(other): Some(relative path), or None for ValueError
RelativeTo(p, other) ==
    IF IsUnder(p, other)
    THEN Some([abs |-> FALSE,
               parts |-> SubSeq(p.parts, Len(other.parts) + 1, Len(p.parts))])
    ELSE None

---------------------------------------------------------------------------
\* dict helpers.

\* d[k] = v
SetKey(d, k, v) == [y \in (DOMAIN d) \cup {k} |-> IF y = k THEN v ELSE d[y]]

\* {**d, **e}
Merge(d, e) == [y \in (DOMAIN d) \cup (DOMAIN e) |-> IF y \in DOMAIN e THEN e[y] ELSE d[y]]

---------------------------------------------------------------------------
\* Block: the task dict each builder method builds.

\* Block.apt_present
apt_present_task(packages, title, update_cache) ==
    LET title1 == IF IsNone(title)
                  THEN <<"Install ">> \o Join(packages, <<", ">>)
                  ELSE Val(title)
        detail0 == [name |-> packages]
        detail == IF update_cache # FALSE
                  THEN SetKey(detail0, "update_cache", update_cache)
                  ELSE detail0
    IN  [name |-> title1, become |-> TRUE, apt |-> detail]

\* Block.unixgroup
unixgroup_task(name, gid, state, system) ==
    LET verb == IF state = <<"present">> THEN <<"Create">> ELSE <<"Remove">>
        g0 == [name |-> name]
        g1 == IF ~IsNone(gid) THEN SetKey(g0, "gid", StrOfInt(Val(gid))) ELSE g0
        g2 == IF state # <<"present">> THEN SetKey(g1, "state", state) ELSE g1
        g3 == IF system THEN SetKey(g2, "system", <<"yes">>) ELSE g2
    IN  [name |-> verb \o <<" unix group ">> \o Repr(name),
         ansible_builtin_group |-> g3,
         become |-> TRUE,
         become_user |-> <<"root">>]

\* Block.unixuser
unixuser_task(name, group, extragroups, uid, state, system) ==
    LET verb == IF state = <<"present">> THEN <<"Create">> ELSE <<"Remove">>
        u0 == [name |-> name, group |-> group]
        u1 == IF ~IsNone(extragroups) /\ Len(Val(extragroups)) > 0
              THEN SetKey(u0, "groups", Join(Val(extragroups), <<",">>))
              ELSE u0
        u2 == IF ~IsNone(uid) THEN SetKey(u1, "uid", StrOfInt(Val(uid))) ELSE u1
        u3 == IF state # <<"present">> THEN SetKey(u2, "state", state) ELSE u2
        u4 == IF system THEN SetKey(u3, "system", <<"yes">>) ELSE u3
    IN  [name |-> verb \o <<" unix user ">> \o Repr(name),
         ansible_builtin_user |-> u4,
         become |-> TRUE,
         become_user |-> <<"root">>]

\* Block.mkdir
mkdir_task(path, owner, mode) ==
    [name |-> <<"mkdir ">> \o path,
     become |-> TRUE,
     file |-> [path |-> path, state |-> <<"directory">>, owner |-> owner,
               group |-> owner, mode |-> mode]]

\* Block.other
other_task(name, become, detail) ==
    Merge([name |-> name, become |-> TRUE, become_user |-> become], detail)

\* Block.unlink
unlink_task(path, become) ==
    other_task(<<"Unlink (rm) ">> \o path, become,
               [file |-> [path |-> path, state |-> <<"absent">>, force |-> TRUE]])

\* Block.symlink
symlink_task(path, src, owner, group, mode, force, become) ==
    other_task(<<"Create '">> \o path \o <<"' symlink to ">> \o src,
               IF IsNone(become) \/ Len(Val(become)) = 0 THEN owner ELSE Val(become),
               [file |-> [path |-> path, state |-> <<"link">>, src |-> src,
                          owner |-> owner, group |-> group, mode |-> mode,
                          force |-> force]])

\* Block.gitclone
gitclone_task(url, dest, owner, ref, update) ==
    SetKey([name |-> <<"Clone ">> \o url \o <<" to ">> \o dest,
            become |-> TRUE,
            git |-> [dest |-> dest, repo |-> url, version |-> ref, update |-> update]],
           "become_user", owner)

\* Block.command
command_task(title, command, chdir, become) ==
    LET detail0 == [argv |-> command]
        detail == IF ~IsNone(chdir) THEN SetKey(detail0, "chdir", Val(chdir)) ELSE detail0
        task == [name |-> title, command |-> detail]
    IN  IF ~IsNone(become)
        THEN SetKey(SetKey(task, "become", TRUE), "become_user", Val(become))
        ELSE task

\* A copy source: a str or a Path object.
StrSrc(s) == [type |-> "str", v |-> s]
PathSrc(p) == [type |-> "Path", v |-> p]

\* bool(src) for an optional source: None and "" are falsy, a Path is truthy
SrcTruthy(src) == ~IsNone(src) /\ (Val(src).type = "Path" \/ Len(Val(src).v) > 0)

\* os.fspath(src)
SrcText(s) == IF s.type = "Path" THEN StrOfPath(s.v) ELSE s.v

\* Variant of copy_fails that rejects only a call with neither src nor content
copy_fails_neither_only(src, content) == IsNone(src) /\ IsNone(content)

\* Block.copy, the two assertions: TRUE when one of them fails
copy_fails(src, content) ==
    IF ~IsNone(src) THEN ~IsNone(content) ELSE IsNone(content)

\* Block.copy, the recorded 'src': str(src) of a Path, str(self._root / src) of a str
copy_src(root, s) ==
    IF s.type = "Path" THEN StrOfPath(s.v) ELSE StrOfPath(JoinStr(root, s.v))

\* Block.copy, the task built when no assertion fails
copy_task(selfroot, title, src, content, dest, root, owner, mode) ==
    LET how0 == [dest |-> dest, backup |-> TRUE]
        title1 == IF IsNone(title)
                  THEN IF SrcTruthy(src)
                       THEN <<"Upload ">> \o basename(SrcText(Val(src)))
                                \o <<" to ">> \o dest
                       ELSE <<"Create ">> \o dest
                  ELSE Val(title)
        how1 == IF ~IsNone(src)
                THEN SetKey(how0, "src", copy_src(selfroot, Val(src)))
                ELSE SetKey(how0, "content", Val(content))
        how2 == IF ~IsNone(mode) THEN SetKey(how1, "mode", Val(mode)) ELSE how1
        ownerTruthy == ~IsNone(owner) /\ Len(Val(owner)) > 0
        how3 == IF ownerTruthy THEN SetKey(how2, "owner", Val(owner)) ELSE how2
        task == [name |-> title1, copy |-> how3]
    IN  IF root \/ ownerTruthy
        THEN SetKey(SetKey(task, "become", TRUE), "become_user", <<"root">>)
        ELSE task

---------------------------------------------------------------------------
\* The entries of Block._tasks: a task dict, or a reference to a child Block.
DictEntry(d) == [kind |-> "dict", d |-> d]
BlockEntry(k) == [kind |-> "Block", id |-> k]

\* Block.__init__
NewBlock(name, root, isPlay) ==
    [name |-> name, root |-> root, tasks |-> <<>>, isPlay |-> isPlay]

\* Variant of get_tasks that yields the task dicts only and skips child Blocks
get_tasks_dicts_only(bs, b) ==
    LET IsDict(t) == t.kind = "dict"
        ds == SelectSeq(bs[b].tasks, IsDict)
    IN  [i \in 1..Len(ds) |-> ds[i].d]

RECURSIVE get_tasks(_, _)
\* Block.get_tasks of block b in arena bs, as the list it yields
get_tasks(bs, b) ==
    [i \in 1..Len(bs[b].tasks) |->
        LET task == bs[b].tasks[i]
        IN  IF task.kind = "dict"
            THEN task.d
            ELSE [name |-> bs[task.id].name, block |-> get_tasks(bs, task.id)]]

\* Variant of append for a child Block that aliases the _tasks list of the root
append_to_root(bs, b, entry) == [bs EXCEPT ![1].tasks = Append(@, entry)]

\* self._tasks.append(entry) on block b
append(bs, b, entry) == [bs EXCEPT ![b].tasks = Append(@, entry)]

---------------------------------------------------------------------------
\* The inputs the calls are made with.

\* The directory a tree is bound to: /srv/proj
Roots == {[abs |-> TRUE, parts |-> <<<<"srv">>, <<"proj">>>>]}

BlockNames == {<<>>, <<"web">>}
PlayNames == {<<"site", ".yml">>, <<"site">>, <<"a", "/", "b", ".yml">>, <<>>}

\* files/app.conf and /etc/app.conf, each as a str and as a Path
CopySources ==
    <<None,
      Some(StrSrc(<<"files", "/", "app.conf">>)),
      Some(StrSrc(<<"/", "etc", "/", "app.conf">>)),
      Some(PathSrc([abs |-> FALSE, parts |-> <<<<"files">>, <<"app.conf">>>>])),
      Some(PathSrc([abs |-> TRUE, parts |-> <<<<"etc">>, <<"app.conf">>>>]))>>

CopyContents == {None, Some(<<"listen 80;">>)}

\* run_play(saveas=...): None, /srv/proj/out/site.yml, /var/out/site.yml
SavePaths ==
    {None,
     Some([abs |-> TRUE, parts |-> <<<<"srv">>, <<"proj">>, <<"out">>, <<"site", ".yml">>>>]),
     Some([abs |-> TRUE, parts |-> <<<<"var">>, <<"out">>, <<"site", ".yml">>>>])}

\* tempfile.gettempdir(): /tmp, or a TMPDIR below the root
TempBases == {<<"/", "tmp">>, <<"/", "srv", "/", "proj", "/", "tmp">>}

Verbosities == {0, 2}
ExitCodes == {0, 1}

\* What the save path holds before the run: nothing, or an older document
Stale == Some(<<[hosts |-> <<"old">>, tasks |-> <<>>]>>)
PriorFiles == {None, Stale}

---------------------------------------------------------------------------
\* State.

Ids == 1..Len(blocks)

NoCall == [op |-> "none", blk |-> 0, name |-> <<>>, src |-> None, content |-> None,
           raised |-> "none"]

NoRun == [given |-> FALSE, saveas |-> [abs |-> FALSE, parts |-> <<>>], hosts |-> <<>>,
          verbosity |-> 0, tmpdir |-> None]

NoError == [exc |-> "none", line |-> 0]

Init ==
    /\ blocks = <<>>
    /\ appended = <<>>
    /\ lastCall = NoCall
    /\ ncalls = 0
    /\ pc = "idle"
    /\ run = NoRun
    /\ raised = NoError
    /\ tmpExists = FALSE
    /\ tmpMade = 0
    /\ docfile = None
    /\ logs = <<>>
    /\ invocations = <<>>

---------------------------------------------------------------------------
\* Construction of the root object.

\* Block(name, root=root)
BlockInit(name, root) ==
    /\ pc = "idle"
    /\ Len(blocks) = 0
    /\ blocks' = <<NewBlock(name, root, FALSE)>>
    /\ appended' = <<<<>>>>
    /\ lastCall' = [NoCall EXCEPT !.op = "Block", !.blk = 1, !.name = name]
    /\ UNCHANGED <<ncalls, runVars>>

\* Play.__init__, the two assertions: TRUE when one of them fails
play_name_rejected(name) == HasSlash(name) \/ ~EndsWithYml(name)

\* Play(name, root=root)
PlayInit(name, root) ==
    /\ pc = "idle"
    /\ Len(blocks) = 0
    /\ IF play_name_rejected(name)
       THEN /\ lastCall' = [NoCall EXCEPT !.op = "Play", !.name = name,
                                          !.raised = "AssertionError"]
            /\ UNCHANGED <<blocks, appended>>
       ELSE /\ blocks' = <<NewBlock(name, root, TRUE)>>
            /\ appended' = <<<<>>>>
            /\ lastCall' = [NoCall EXCEPT !.op = "Play", !.blk = 1, !.name = name]
    /\ UNCHANGED <<ncalls, runVars>>

---------------------------------------------------------------------------
\* The builder methods.

CanCall(b) == pc = "idle" /\ b \in Ids /\ ncalls < MaxOps

\* A builder method of block b that appends the task dict d
Builds(b, op, d) ==
    /\ CanCall(b)
    /\ blocks' = append(blocks, b, DictEntry(d))
    /\ appended' = [appended EXCEPT ![b] = Append(@, [op |-> op, entry |-> DictEntry(d)])]
    /\ lastCall' = [NoCall EXCEPT !.op = op, !.blk = b]
    /\ ncalls' = ncalls + 1
    /\ UNCHANGED runVars

apt_present(b) ==
    Builds(b, "apt_present", apt_present_task(<<<<"nginx">>, <<"git">>>>, None, TRUE))

unixgroup(b) ==
    Builds(b, "unixgroup", unixgroup_task(<<"deploy">>, Some(1000), <<"present">>, FALSE))

unixuser(b) ==
    Builds(b, "unixuser",
           unixuser_task(<<"deploy">>, <<"deploy">>, Some(<<<<"g1">>, <<"g2">>>>),
                         None, <<"absent">>, TRUE))

mkdir(b) ==
    Builds(b, "mkdir", mkdir_task(<<"/", "srv", "/", "www">>, <<"root">>, <<"0755">>))

unlink(b) ==
    Builds(b, "unlink", unlink_task(<<"/", "etc", "/", "old.conf">>, <<"root">>))

symlink(b) ==
    \E force \in BOOLEAN :
        Builds(b, "symlink",
               symlink_task(<<"/", "etc", "/", "cur">>, <<"/", "srv", "/", "www">>,
                            <<"www">>, <<"www">>, 420, force, None))

other(b) ==
    Builds(b, "other",
           other_task(<<"Allow ssh">>, <<"root">>,
                      [ufw |-> [rule |-> <<"allow">>, port |-> <<"22">>]]))

gitclone(b) ==
    Builds(b, "gitclone",
           gitclone_task(<<"https:", "/", "/", "example.org", "/", "app.git">>,
                         <<"/", "srv", "/", "app">>, <<"deploy">>, <<"main">>, TRUE))

command(b) ==
    \E become \in {None, Some(<<"deploy">>)} :
        Builds(b, "command",
               command_task(<<"Restart app">>, <<<<"systemctl">>, <<"restart">>, <<"app">>>>,
                            None, become))

\* Block.copy
copy(b, src, content) ==
    /\ CanCall(b)
    /\ IF copy_fails(src, content)
       THEN /\ lastCall' = [NoCall EXCEPT !.op = "copy", !.blk = b, !.src = src,
                                          !.content = content,
                                          !.raised = "AssertionError"]
            /\ UNCHANGED <<blocks, appended>>
       ELSE LET d == copy_task(blocks[b].root, None, src, content,
                               <<"/", "etc", "/", "app.conf">>, FALSE, None, None)
            IN  /\ blocks' = append(blocks, b, DictEntry(d))
                /\ appended' = [appended EXCEPT
                                   ![b] = Append(@, [op |-> "copy", entry |-> DictEntry(d)])]
                /\ lastCall' = [NoCall EXCEPT !.op = "copy", !.blk = b, !.src = src,
                                              !.content = content]
    /\ ncalls' = ncalls + 1
    /\ UNCHANGED runVars

\* Block.get_block
get_block(b, name) ==
    /\ CanCall(b)
    /\ LET k == Len(blocks) + 1
       IN  /\ blocks' = append(Append(blocks, NewBlock(name, blocks[b].root, FALSE)),
                               b, BlockEntry(k))
           /\ appended' = [Append(appended, <<>>) EXCEPT
                              ![b] = Append(@, [op |-> "get_block", entry |-> BlockEntry(k)])]
           /\ lastCall' = [NoCall EXCEPT !.op = "get_block", !.blk = b, !.name = name]
    /\ ncalls' = ncalls + 1
    /\ UNCHANGED runVars

---------------------------------------------------------------------------
\* Play.run_play and Play._run_play, one call, step by step.

\* run_play: `if saveas is None`
needs_tmpdir(saveas) == IsNone(saveas)

\* Variant of no_tasks that counts the task dicts of the whole tree
no_tasks_in_tree(bs) ==
    \A q \in 1..Len(bs) : \A i \in 1..Len(bs[q].tasks) : bs[q].tasks[i].kind # "dict"

\* _run_play: `assert len(self._tasks)`, TRUE when it fails
no_tasks(bs) == Len(bs[1].tasks) = 0

\* Variant of dumped that dumps an exhausted task iterator
dumped_exhausted(bs, hosts) == <<[hosts |-> hosts, tasks |-> <<>>]>>

\* _run_play: what yaml.dump is given
dumped(bs, hosts) == <<[hosts |-> hosts, tasks |-> get_tasks(bs, 1)]>>

RECURSIVE Repeat(_, _)
\* [x] * n
Repeat(x, n) == IF n = 0 THEN <<>> ELSE <<x>> \o Repeat(x, n - 1)

\* _run_play: the argument vector of the engine
command_line(saveas, verbosity) ==
    <<<<"ansible-playbook">>, StrOfPath(saveas)>> \o Repeat(<<"--verbose">>, verbosity)

\* Variant of check_fails for subprocess.run(check=False)
check_fails_never(exit) == FALSE

\* subprocess.run(check=True): TRUE when the exit status raises CalledProcessError
check_fails(exit) == exit # 0

\* Variant of tmp_removed that cleans up only after a run without exception
tmp_removed_on_success(exc) == exc = "none"

\* TemporaryDirectory.__exit__: the directory is removed however the block is left
tmp_removed(exc) == TRUE

\* run_play entered
RunPlay(saveas, hosts, verbosity, tmpbase, prior) ==
    /\ pc = "idle"
    /\ Len(blocks) > 0
    /\ blocks[1].isPlay
    /\ ncalls <= MaxRunOps
    /\ \/ /\ needs_tmpdir(saveas)
          /\ prior = None
          /\ LET tmpdir == tmpbase \o <<"/", "tmpk3x">>
             IN  run' = [given |-> FALSE,
                         saveas |-> JoinStr(PathOf(tmpdir), blocks[1].name),
                         hosts |-> hosts, verbosity |-> verbosity,
                         tmpdir |-> Some(tmpdir)]
          /\ tmpExists' = TRUE
          /\ tmpMade' = tmpMade + 1
          /\ docfile' = None
       \/ /\ ~needs_tmpdir(saveas)
          /\ run' = [given |-> TRUE, saveas |-> Val(saveas), hosts |-> hosts,
                     verbosity |-> verbosity, tmpdir |-> None]
          /\ docfile' = prior
          /\ UNCHANGED <<tmpExists, tmpMade>>
    /\ pc' = "assert"
    /\ UNCHANGED <<buildVars, raised, logs, invocations>>

\* _run_play line 294
AssertTasks ==
    /\ pc = "assert"
    /\ IF no_tasks(blocks)
       THEN raised' = [exc |-> "AssertionError", line |-> 294] /\ pc' = "exit"
       ELSE UNCHANGED raised /\ pc' = "log_generating"
    /\ UNCHANGED <<buildVars, run, tmpExists, tmpMade, docfile, logs, invocations>>

\* _run_play lines 296 and 307: the log call formats saveas.relative_to(self._root)
LogStep(at, line, text, next) ==
    /\ pc = at
    /\ LET rel == RelativeTo(run.saveas, blocks[1].root)
       IN  IF IsNone(rel)
           THEN /\ raised' = [exc |-> "ValueError", line |-> line]
                /\ pc' = "exit"
                /\ UNCHANGED logs
           ELSE /\ logs' = Append(logs, text \o StrOfPath(Val(rel)))
                /\ pc' = next
                /\ UNCHANGED raised
    /\ UNCHANGED <<buildVars, run, tmpExists, tmpMade, docfile, invocations>>

LogGenerating == LogStep("log_generating", 296, <<"Generating playbook ">>, "write")

\* _run_play lines 297-298: open(saveas, 'w') may fail with OSError
WriteDoc ==
    /\ pc = "write"
    /\ \/ /\ docfile' = Some(dumped(blocks, run.hosts))
          /\ pc' = "log_running"
          /\ UNCHANGED raised
       \/ /\ raised' = [exc |-> "OSError", line |-> 297]
          /\ pc' = "exit"
          /\ UNCHANGED docfile
    /\ UNCHANGED <<buildVars, run, tmpExists, tmpMade, logs, invocations>>

LogRunning == LogStep("log_running", 307, <<"Running ansible-playbook ">>, "invoke")

\* _run_play line 308
Invoke(exit) ==
    /\ pc = "invoke"
    /\ invocations' = Append(invocations,
                             [cmd |-> command_line(run.saveas, run.verbosity),
                              cwd |-> blocks[1].root, exit |-> exit])
    /\ IF check_fails(exit)
       THEN raised' = [exc |-> "CalledProcessError", line |-> 308]
       ELSE UNCHANGED raised
    /\ pc' = "exit"
    /\ UNCHANGED <<buildVars, run, tmpExists, tmpMade, docfile, logs>>

\* run_play lines 288-291: the with block is left and run_play returns or raises
ExitRun ==
    /\ pc = "exit"
    /\ IF ~run.given /\ tmp_removed(raised.exc)
       THEN tmpExists' = FALSE /\ docfile' = None
       ELSE UNCHANGED <<tmpExists, docfile>>
    /\ pc' = "done"
    /\ UNCHANGED <<buildVars, run, raised, tmpMade, logs, invocations>>

---------------------------------------------------------------------------
Next ==
    \/ \E name \in BlockNames, root \in Roots : BlockInit(name, root)
    \/ \E name \in PlayNames, root \in Roots : PlayInit(name, root)
    \/ \E b \in Ids : apt_present(b)
    \/ \E b \in Ids : unixgroup(b)
    \/ \E b \in Ids : unixuser(b)
    \/ \E b \in Ids : mkdir(b)
    \/ \E b \in Ids : unlink(b)
    \/ \E b \in Ids : symlink(b)
    \/ \E b \in Ids : other(b)
    \/ \E b \in Ids : gitclone(b)
    \/ \E b \in Ids : command(b)
    \/ \E b \in Ids, i \in DOMAIN CopySources, content \in CopyContents :
          copy(b, CopySources[i], content)
    \/ \E b \in Ids, name \in BlockNames : get_block(b, name)
    \/ \E saveas \in SavePaths, verbosity \in Verbosities, tmpbase \in TempBases,
          prior \in PriorFiles : RunPlay(saveas, <<"all">>, verbosity, tmpbase, prior)
    \/ AssertTasks
    \/ LogGenerating
    \/ WriteDoc
    \/ LogRunning
    \/ \E exit \in ExitCodes : Invoke(exit)
    \/ ExitRun

Spec == Init /\ [][Next]_vars

---------------------------------------------------------------------------
\* Properties.

\* A builder call was just made
BuilderStep == ncalls' = ncalls + 1

\* The document of the run, as the caller expects it in the file
ExpectedDoc == <<[hosts |-> run.hosts, tasks |-> get_tasks(blocks, 1)]>>

AfterAssert == pc \in {"log_generating", "write", "log_running", "invoke", "exit", "done"}

\* C1: for every sequence of builder calls on a block, get_tasks yields exactly
\* one entry per successful call, in call order: the i-th yielded entry is the
\* task dict the i-th successful call built, or the mapping of the child Block
\* the i-th call opened.
C1_FlattenPreservesCallOrder ==
    \A b \in Ids :
        LET out == get_tasks(blocks, b)
            calls == appended[b]
        IN  /\ Len(out) = Len(calls)
            /\ \A i \in 1..Len(calls) :
                  IF calls[i].entry.kind = "dict"
                  THEN out[i] = calls[i].entry.d
                  ELSE /\ DOMAIN out[i] = {"name", "block"}
                       /\ out[i].name = blocks[calls[i].entry.id].name

\* C1 witness: a block on which apt_present, get_block and a successful copy
\* were called in this order, flattened to three entries.
C1_Witness ==
    \E b \in Ids :
        /\ Len(appended[b]) = 3
        /\ appended[b][1].op = "apt_present"
        /\ appended[b][2].op = "get_block"
        /\ appended[b][3].op = "copy"
        /\ Len(get_tasks(blocks, b)) = 3

\* C2, state part: a child's entry in the flattened parent sits where get_block
\* was called, carries the child's name and a block list equal to the child's
\* own get_tasks.
C2_ChildEntry ==
    \A p \in Ids : \A i \in 1..Len(blocks[p].tasks) :
        blocks[p].tasks[i].kind = "Block" =>
            LET c == blocks[p].tasks[i].id
                out == get_tasks(blocks, p)
            IN  /\ Len(appended[p]) = Len(blocks[p].tasks)
                /\ appended[p][i].op = "get_block"
                /\ appended[p][i].entry.id = c
                /\ Len(out) = Len(blocks[p].tasks)
                /\ out[i].name = blocks[c].name
                /\ Len(out[i].block) = Len(blocks[c].tasks)
                /\ out[i].block = get_tasks(blocks, c)

\* C2, step part: a builder call on one block leaves the name and the recorded
\* operations of every other block as they were.
C2_Frame ==
    BuilderStep =>
        \A p \in Ids :
            p # lastCall'.blk =>
                /\ blocks'[p].name = blocks[p].name
                /\ Len(blocks'[p].tasks) = Len(blocks[p].tasks)
                /\ blocks'[p].tasks = blocks[p].tasks

\* C2: appending to a child obtained from get_block never changes the parent's
\* recorded operations, and the flattened parent holds the child's entry at the
\* position it was opened, with the child's name and the child's own get_tasks.
C2_NestedBlockIsolation == [](C2_ChildEntry) /\ [][C2_Frame]_vars

\* C2 witness: a parent with an earlier operation and then a child block, the
\* child just appended to.
C2_Witness ==
    \E p \in Ids :
        /\ Len(blocks[p].tasks) = 2
        /\ blocks[p].tasks[1].kind = "dict"
        /\ blocks[p].tasks[2].kind = "Block"
        /\ Len(blocks[blocks[p].tasks[2].id].tasks) = 1
        /\ lastCall.blk = blocks[p].tasks[2].id

\* C3: the two log steps of _run_play (lines 296 and 307) never raise.
C3_LogStepsNeverRaise == raised.line \notin {296, 307}

C5_TmpDirRemoved ==
    (pc = "done" /\ ~run.given) => (tmpMade = 1 /\ ~tmpExists)

\* C5 witness: a run without save path that ended in an exception raised
\* inside the with block, the directory created and gone.
C5_Witness ==
    /\ pc = "done"
    /\ ~run.given
    /\ raised.exc = "CalledProcessError"
    /\ tmpMade = 1
    /\ ~tmpExists

\* C6: the build step of run_play fails (the assertion of line 294) exactly
\* when the Play's own operation sequence is empty, and then no document is
\* written and the engine is not invoked.
C6_EmptyPlayFailsBuild ==
    AfterAssert =>
        /\ (raised.line = 294) <=> (Len(blocks[1].tasks) = 0)
        /\ raised.line = 294 => (docfile \in PriorFiles /\ Len(invocations) = 0)

\* C6 witness: a Play whose only entry is an empty nested block ran, and the
\* engine was invoked.
C6_Witness ==
    /\ pc = "done"
    /\ raised = NoError
    /\ Len(blocks[1].tasks) = 1
    /\ blocks[1].tasks[1].kind = "Block"
    /\ Len(blocks[blocks[1].tasks[1].id].tasks) = 0
    /\ Len(invocations) = 1

\* C7: within one run_play call the engine is invoked at most once, and a
\* non-zero exit status ends run_play in CalledProcessError.
C7_SingleInvocationFailureSurfaced ==
    /\ Len(invocations) <= 1
    /\ (pc \in {"exit", "done"} /\ Len(invocations) = 1 /\ invocations[1].exit # 0)
           => raised.exc = "CalledProcessError"

\* C7 witness: the engine exited with status 1 and run_play raised.
C7_Witness ==
    /\ pc = "done"
    /\ Len(invocations) = 1
    /\ invocations[1].exit = 1
    /\ raised.exc = "CalledProcessError"

\* The step of C8: a copy call with both or neither of src and content raises
\* and leaves every block as it was; any other copy call appends exactly one
\* task dict with a 'copy' key to its block and nothing else.
C8_CopyStep ==
    (BuilderStep /\ lastCall'.op = "copy") =>
        LET c == lastCall'
            both == ~IsNone(c.src) /\ ~IsNone(c.content)
            neither == IsNone(c.src) /\ IsNone(c.content)
        IN  /\ Len(blocks') = Len(blocks)
            /\ \A q \in Ids : q # c.blk =>
                  /\ Len(blocks'[q].tasks) = Len(blocks[q].tasks)
                  /\ blocks'[q].tasks = blocks[q].tasks
            /\ IF both \/ neither
               THEN /\ c.raised = "AssertionError"
                    /\ Len(blocks'[c.blk].tasks) = Len(blocks[c.blk].tasks)
                    /\ blocks'[c.blk].tasks = blocks[c.blk].tasks
               ELSE LET n == Len(blocks[c.blk].tasks)
                    IN  /\ c.raised = "none"
                        /\ Len(blocks'[c.blk].tasks) = n + 1
                        /\ SubSeq(blocks'[c.blk].tasks, 1, n) = blocks[c.blk].tasks
                        /\ blocks'[c.blk].tasks[n + 1].kind = "dict"
                        /\ "copy" \in DOMAIN blocks'[c.blk].tasks[n + 1].d

\* C8: copy fails when both src and content are supplied and when neither is,
\* leaving the operation sequence unchanged; otherwise it appends exactly one
\* descriptor.
C8_CopyExactlyOneSource == [][C8_CopyStep]_vars

\* C8 witness: copy was called with both src and content and raised.
C8_Witness ==
    /\ lastCall.op = "copy"
    /\ ~IsNone(lastCall.src)
    /\ ~IsNone(lastCall.content)
    /\ lastCall.raised = "AssertionError"
    /\ Len(blocks[lastCall.blk].tasks) > 0

\* C9: after a copy call that supplied a source, as a str or as a Path, the
\* recorded src is the root joined with the source when the source is relative,
\* and the source unchanged when it is absolute.
C9_RelativeSrcResolved ==
    (lastCall.op = "copy" /\ lastCall.raised = "none" /\ ~IsNone(lastCall.src)) =>
        LET b == lastCall.blk
            text == SrcText(Val(lastCall.src))
            rec == blocks[b].tasks[Len(blocks[b].tasks)].d.copy.src
        IN  IF Len(text) > 0 /\ text[1] = "/"
            THEN rec = text
            ELSE rec = StrOfPath(blocks[b].root) \o <<"/">> \o text

\* C10: every block of the tree has a non-empty name.
C10_NamesNonEmpty == \A b \in Ids : Len(blocks[b].name) > 0

=============================================================================
